---- MODULE Spec2Model ----
(***************************************************************************)
(* Model of the timestamp codecs of timestamp-optimizer                    *)
(* (time_converter.js, enhanced_compression.js, benchmark.js).             *)
(*                                                                         *)
(* JavaScript Numbers are doubles, exact on integers of magnitude below    *)
(* 2^53.  Millisecond timestamps (about 1.7 * 10^12) do not fit the 32-bit *)
(* integers of TLC, so a Number is a record [neg, hi, mid, lo] standing    *)
(* for (-1)^neg * (hi * 10^12 + mid * 10^6 + lo) with 0 <= mid, lo < 10^6. *)
(* Strings are sequences of one-character strings.                         *)
(***************************************************************************)
EXTENDS Integers, Sequences, FiniteSets, TLC

LIMB == 10^6

\* ---------------------------------------------------------------- Numbers

Num(a, b, c) == [nan |-> FALSE, neg |-> FALSE, hi |-> a, mid |-> b, lo |-> c]

\* NaN: what arithmetic on an Invalid Date yields
NaN == [nan |-> TRUE, neg |-> FALSE, hi |-> 0, mid |-> 0, lo |-> 0]

Zero == Num(0, 0, 0)

IsZero(x) == x.hi = 0 /\ x.mid = 0 /\ x.lo = 0

\* unary minus (there is one zero; the -0 of `%` is handled where it arises)
Neg(x) == IF IsZero(x) THEN x ELSE [x EXCEPT !.neg = ~x.neg]

\* Math.abs
Abs(x) == [x EXCEPT !.neg = FALSE]

\* a Number from a small integer literal
FromInt(i) ==
  LET m == IF i < 0 THEN 0 - i ELSE i
  IN  [nan |-> FALSE, neg |-> i < 0, hi |-> 0, mid |-> m \div LIMB,
       lo |-> m % LIMB]

\* the value of a Number of magnitude below 2 * 10^9, as an integer
ToInt(x) ==
  LET m == x.mid * LIMB + x.lo
  IN  IF x.neg THEN 0 - m ELSE m

\* |x| < |y|
MagLess(x, y) ==
  \/ x.hi < y.hi
  \/ x.hi = y.hi /\ x.mid < y.mid
  \/ x.hi = y.hi /\ x.mid = y.mid /\ x.lo < y.lo

\* |x| + |y|
MagAdd(x, y) ==
  LET l == x.lo + y.lo
      m == x.mid + y.mid + (l \div LIMB)
  IN  Num(x.hi + y.hi + (m \div LIMB), m % LIMB, l % LIMB)

\* |x| - |y|, for |x| >= |y|
MagSub(x, y) ==
  LET l  == x.lo - y.lo
      bl == IF l < 0 THEN 1 ELSE 0
      m  == x.mid - y.mid - bl
      bm == IF m < 0 THEN 1 ELSE 0
  IN  Num(x.hi - y.hi - bm, m + bm * LIMB, l + bl * LIMB)

\* x + y
Add(x, y) ==
  IF x.neg = y.neg
  THEN [MagAdd(x, y) EXCEPT !.neg = x.neg /\ ~IsZero(MagAdd(x, y))]
  ELSE IF MagLess(x, y)
       THEN [MagSub(y, x) EXCEPT !.neg = y.neg]
       ELSE [MagSub(x, y) EXCEPT !.neg = x.neg /\ ~IsZero(MagSub(x, y))]

\* x - y
Sub(x, y) == Add(x, Neg(y))

\* x < y
Less(x, y) ==
  IF x.neg # y.neg THEN x.neg
  ELSE IF x.neg THEN MagLess(y, x) ELSE MagLess(x, y)

\* x >= y
Geq(x, y) == ~Less(x, y)

\* |x| * k for a small factor 0 <= k <= 2147
MagMul(x, k) ==
  LET l == x.lo * k
      m == x.mid * k + (l \div LIMB)
  IN  Num(x.hi * k + (m \div LIMB), m % LIMB, l % LIMB)

\* |x| \div d for a small divisor 1 <= d <= 2147
MagDiv(x, d) ==
  LET m == (x.hi % d) * LIMB + x.mid
      l == (m % d) * LIMB + x.lo
  IN  Num(x.hi \div d, m \div d, l \div d)

\* |x| % d for a small divisor 1 <= d <= 2147
MagMod(x, d) ==
  LET m == (x.hi % d) * LIMB + x.mid
      l == (m % d) * LIMB + x.lo
  IN  l % d

\* Math.floor(x / d) for a small divisor d
FloorDiv(x, d) ==
  IF ~x.neg THEN MagDiv(x, d)
  ELSE IF MagMod(x, d) = 0
       THEN [MagDiv(x, d) EXCEPT !.neg = TRUE]
       ELSE [MagAdd(MagDiv(x, d), FromInt(1)) EXCEPT !.neg = TRUE]

\* ---------------------------------------------------------------- Strings

Digits ==
  <<"0", "1", "2", "3", "4", "5", "6", "7", "8", "9">>

Lower ==
  <<"a", "b", "c", "d", "e", "f", "g", "h", "i", "j", "k", "l", "m", "n",
    "o", "p", "q", "r", "s", "t", "u", "v", "w", "x", "y", "z">>

Upper ==
  <<"A", "B", "C", "D", "E", "F", "G", "H", "I", "J", "K", "L", "M", "N",
    "O", "P", "Q", "R", "S", "T", "U", "V", "W", "X", "Y", "Z">>

Punct ==
  <<"!", "#", "$", "%", "&", "(", ")", "*", "+", ",", "-", ".", "/", ":",
    ";", "<", "=", ">", "?", "@", "[", "]", "^", "_", "{", "|", "}", "~">>

\* const chars = "0123456789abcdefghijklmnopqrstuvwxyz"
Chars36 == Digits \o Lower

\* const chars = "0123...xyzABC...XYZ"
Chars62 == Digits \o Lower \o Upper

\* const chars = "0123...XYZ!#$%&()*+,-./:;<=>?@[]^_{|}~"
Chars94 == Digits \o Lower \o Upper \o Punct

\* what `undefined + result` prepends to a string
Undefined == <<"u", "n", "d", "e", "f", "i", "n", "e", "d">>

\* chars[number % base] + "": `%` takes the sign of the dividend, so a
\* negative number gives a negative index (the property is missing, the value
\* undefined) or -0 (the property "0"); NaN % base is NaN, no property either
\* the character read from the far end of the alphabet
CharAtReversed(chars, number) ==
  LET r == MagMod(number, Len(chars))
  IN  IF number.nan THEN Undefined
      ELSE IF ~number.neg \/ r = 0 THEN <<chars[Len(chars) - r]>>
      ELSE Undefined

CharAt(chars, number) ==
  LET r == MagMod(number, Len(chars))
  IN  IF number.nan THEN Undefined
      ELSE IF ~number.neg \/ r = 0 THEN <<chars[r + 1]>> ELSE Undefined

\* DoWhile with the digit appended instead of prepended: least significant
\* digit first
RECURSIVE DoWhileAppending(_, _, _)
DoWhileAppending(chars, number, result) ==
  LET res == result \o CharAt(chars, number)
      num == FloorDiv(number, Len(chars))
  IN  IF ~number.nan /\ Less(Zero, num)
      THEN DoWhileAppending(chars, num, res) ELSE res

\* DoWhile as a plain while loop: the test comes before the first digit
RECURSIVE DoWhileTestFirst(_, _, _)
DoWhileTestFirst(chars, number, result) ==
  IF ~number.nan /\ Less(Zero, number)
  THEN DoWhileTestFirst(chars, FloorDiv(number, Len(chars)),
                        CharAt(chars, number) \o result)
  ELSE result

\* the loop that tests the number it has just written, not the quotient
RECURSIVE DoWhileLeadingZero(_, _, _)
DoWhileLeadingZero(chars, number, result) ==
  LET res == CharAt(chars, number) \o result
      num == FloorDiv(number, Len(chars))
  IN  IF ~number.nan /\ Less(Zero, number)
      THEN DoWhileLeadingZero(chars, num, res)
      ELSE res

\* do { result = chars[number % base] + result;
\*      number = Math.floor(number / base); } while (number > 0);
\* (Math.floor(NaN / base) is NaN, and NaN > 0 is false)
RECURSIVE DoWhile(_, _, _)
DoWhile(chars, number, result) ==
  LET res == CharAt(chars, number) \o result
      num == FloorDiv(number, Len(chars))
  IN  IF ~number.nan /\ Less(Zero, num) THEN DoWhile(chars, num, res) ELSE res

\* --------------------------------------------------------- time_converter.js

compressMillisCustom(millis) == DoWhile(Chars36, millis, <<>>)

compressMillisBase62(millis) == DoWhile(Chars62, millis, <<>>)

\* ---------------------------------------------------- enhanced_compression.js

compressMillisBase94(millis) == DoWhile(Chars94, millis, <<>>)

\* the module's own copy of the Base62 encoder
compressMillisBase62Helper(millis) == DoWhile(Chars62, millis, <<>>)

\* referenceDate = 1577836800000
DefaultReferenceDate == Num(1, 577836, 800000)

\* compressMillisVariable without Math.abs: the loop runs on diff itself
compressMillisVariableNoAbs(millis, referenceArg) ==
  LET referenceDate == IF referenceArg = <<>> THEN DefaultReferenceDate
                       ELSE referenceArg[1]
      diff    == Sub(millis, referenceDate)
      sign    == IF Geq(diff, Zero) THEN "+" ELSE "-"
  IN  <<sign>> \o DoWhile(Chars62, diff, <<>>)

\* compressMillisVariable with the sign test written diff > 0
compressMillisVariableStrictSign(millis, referenceArg) ==
  LET referenceDate == IF referenceArg = <<>> THEN DefaultReferenceDate
                       ELSE referenceArg[1]
      diff    == Sub(millis, referenceDate)
      sign    == IF Less(Zero, diff) THEN "+" ELSE "-"
      absDiff == Abs(diff)
  IN  <<sign>> \o DoWhile(Chars62, absDiff, <<>>)

\* referenceArg is the list of the arguments after millis: empty when the
\* reference date is omitted and the default applies
compressMillisVariable(millis, referenceArg) ==
  LET referenceDate == IF referenceArg = <<>> THEN DefaultReferenceDate
                       ELSE referenceArg[1]
      diff    == Sub(millis, referenceDate)
      sign    == IF Geq(diff, Zero) THEN "+" ELSE "-"
      absDiff == Abs(diff)
  IN  <<sign>> \o DoWhile(Chars62, absDiff, <<>>)

\* 24 * 60 * 60 * 1000
MS_PER_DAY == 24 * 60 * 60 * 1000

\* Math.round(x / (24 * 60 * 60 * 1000)) in place of Math.floor
RoundDivDay(x) ==
  FloorDiv(FloorDiv(FloorDiv(FloorDiv(Add(x, FromInt(12 * 60 * 60 * 1000)),
                                      1000), 60), 60), 24)

\* Math.floor(x / MS_PER_DAY), dividing by the factors of MS_PER_DAY in turn
\* (nested floors of integer divisors compose)
FloorDivDay(x) == FloorDiv(FloorDiv(FloorDiv(FloorDiv(x, 1000), 60), 60), 24)

\* d * MS_PER_DAY
TimesDay(d) ==
  LET m == MagMul(MagMul(MagMul(MagMul(d, 24), 60), 60), 1000)
  IN  [m EXCEPT !.neg = d.neg /\ ~IsZero(m)]

\* x % MS_PER_DAY: the remainder of the truncating division, with the sign
\* of the dividend
RemDay(x) ==
  LET q == MagDiv(MagDiv(MagDiv(MagDiv(x, 1000), 60), 60), 24)
      r == MagSub(x, TimesDay(q))
  IN  [r EXCEPT !.neg = x.neg /\ ~IsZero(r)]

\* the alphabet of the URL-safe variant, Buffer.toString('base64url')
Base64UrlChars ==
  Upper \o Lower \o Digits \o <<"-", "_">>

\* the alphabet of Buffer.toString('base64')
Base64Chars ==
  Upper \o Lower \o Digits \o <<"+", "/">>

\* three bytes as four base64 characters
Base64Group(b1, b2, b3) ==
  << Base64Chars[(b1 \div 4) + 1],
     Base64Chars[(b1 % 4) * 16 + (b2 \div 16) + 1],
     Base64Chars[(b2 % 16) * 4 + (b3 \div 64) + 1],
     Base64Chars[(b3 % 64) + 1] >>

\* buffer.toString('base64') of the 6-byte buffer: no padding is needed
Base64Of6(buf) ==
  Base64Group(buf[1], buf[2], buf[3]) \o Base64Group(buf[4], buf[5], buf[6])

\* PackBuffer with the days written by writeUInt16LE
PackBufferLE(days, msInDay) ==
  << days % 256, days \div 256,
     msInDay \div 16777216, (msInDay \div 65536) % 256,
     (msInDay \div 256) % 256, msInDay % 256 >>

\* buffer.writeUInt16BE(days, 0) then buffer.writeUInt32BE(msInDay, 2) on
\* Buffer.alloc(6), for 0 <= days <= 65535 and 0 <= msInDay < 2^31
PackBuffer(days, msInDay) ==
  << days \div 256, days % 256,
     msInDay \div 16777216, (msInDay \div 65536) % 256,
     (msInDay \div 256) % 256, msInDay % 256 >>

\* a call's outcome: the string returned, or the exception thrown
Returned(str) == [threw |-> FALSE, value |-> str]

Threw == [threw |-> TRUE, value |-> <<>>]

\* compressMillisBitPacked with the limit test written days >= 65535
compressMillisBitPackedOffByOne(millis) ==
  LET days    == FloorDivDay(millis)
      msInDay == RemDay(millis)
  IN  IF Geq(days, FromInt(65535))
      THEN Returned(<<"F", "_">> \o compressMillisBase62Helper(millis))
      ELSE IF days.neg
           THEN Threw
           ELSE Returned(Base64Of6(PackBuffer(ToInt(days), ToInt(msInDay))))

\* writeUInt16BE throws a RangeError for a value outside 0..65535: days < 0
\* for a negative timestamp
compressMillisBitPacked(millis) ==
  LET days    == FloorDivDay(millis)
      msInDay == RemDay(millis)
  IN  IF Less(FromInt(65535), days)
      THEN Returned(<<"F", "_">> \o compressMillisBase62Helper(millis))
      ELSE IF days.neg
           THEN Threw
           ELSE Returned(Base64Of6(PackBuffer(ToInt(days), ToInt(msInDay))))

\* ------------------------------------------------------------------- Date
\* The process's time zone is ambient: a standard offset and one daylight
\* saving period [from, to) with a larger offset (offsets in milliseconds).

Zone(std, dst, from, to) == [std |-> std, dst |-> dst, from |-> from, to |-> to]

\* the largest time value of a Date (TimeClip): 8.64e15
MaxTime == Num(8640, 0, 0)

\* new Date(millis) is an Invalid Date beyond +-8.64e15
ValidTime(t) == ~t.nan /\ ~MagLess(MaxTime, t)

\* the offset of local time from UTC at the instant t
Offset(tz, t) ==
  IF Geq(t, tz.from) /\ Less(t, tz.to) THEN tz.dst ELSE tz.std

\* LocalTime(t) of ECMAScript
LocalTime(tz, t) == Add(t, FromInt(Offset(tz, t)))

\* date.getFullYear(), date.getMonth(), date.getDate(): the civil date of the
\* local time, identified by its day number Day(LocalTime(t))
LocalDay(tz, t) == FloorDivDay(LocalTime(tz, t))

\* UTC(t) of ECMAScript for a local time: the earliest instant showing that
\* local time; a skipped local time is read with the offset in force before
\* the transition (the standard one, as tz.dst > tz.std)
UTC(tz, tlocal) ==
  LET early == Sub(tlocal, FromInt(tz.dst))
      late  == Sub(tlocal, FromInt(tz.std))
  IN  IF Offset(tz, early) = tz.dst THEN early ELSE late

\* new Date(year, month, date): local midnight of that civil date
LocalMidnight(tz, day) ==
  LET t == UTC(tz, TimesDay(day))
  IN  IF ValidTime(t) THEN t ELSE NaN

\* ----------------------------------------------- time_converter.js (cont.)

\* millisecondsToDaysAndTime with midnight taken in UTC
millisecondsToDaysAndTimeUTC(tz, millis) ==
  IF ~ValidTime(millis)
  THEN [daysSinceEpoch |-> NaN, millisSinceMidnight |-> NaN]
  ELSE [daysSinceEpoch      |-> FloorDivDay(millis),
        millisSinceMidnight |-> Sub(millis, TimesDay(FloorDivDay(millis)))]

\* millisecondsToDaysAndTime with the days counted in local time
millisecondsToDaysAndTimeLocalDays(tz, millis) ==
  IF ~ValidTime(millis)
  THEN [daysSinceEpoch |-> NaN, millisSinceMidnight |-> NaN]
  ELSE LET midnight == LocalMidnight(tz, LocalDay(tz, millis))
       IN  [daysSinceEpoch      |-> LocalDay(tz, millis),
            millisSinceMidnight |-> IF midnight.nan THEN NaN
                                    ELSE Sub(millis, midnight)]

millisecondsToDaysAndTime(tz, millis) ==
  IF ~ValidTime(millis)
  THEN [daysSinceEpoch |-> NaN, millisSinceMidnight |-> NaN]
  ELSE LET date     == millis
           epoch    == Zero
           midnight == LocalMidnight(tz, LocalDay(tz, date))
       IN  [daysSinceEpoch      |-> FloorDivDay(Sub(date, epoch)),
            millisSinceMidnight |-> IF midnight.nan THEN NaN
                                    ELSE Sub(date, midnight)]

compressSplitDaysTime(tz, millis) ==
  LET dt         == millisecondsToDaysAndTime(tz, millis)
      daysResult == DoWhile(Chars62, dt.daysSinceEpoch, <<>>)
      timeResult == DoWhile(Chars62, dt.millisSinceMidnight, <<>>)
  IN  daysResult \o <<":">> \o timeResult

\* ---------------------------------------------------------------- benchmark.js

\* setUTCHours(0, 0, 0, 0) in place of setHours
SetUTCHoursMidnight(tz, millis) ==
  IF ~ValidTime(millis) THEN NaN ELSE TimesDay(FloorDivDay(millis))

\* new Date(new Date(millis).setHours(0, 0, 0, 0)).getTime(): the time value
\* of 00:00:00.000 local time on the local date of millis; NaN for an
\* Invalid Date
SetHoursMidnight(tz, millis) ==
  IF ~ValidTime(millis) THEN NaN
  ELSE LocalMidnight(tz, LocalDay(tz, millis))

\* compressSplitDaysTime of benchmark.js
benchmarkCompressSplitDaysTime(tz, millis) ==
  LET daysSinceEpoch      == FloorDivDay(millis)
      midnight            == SetHoursMidnight(tz, millis)
      millisSinceMidnight == IF midnight.nan THEN NaN
                             ELSE Sub(millis, midnight)
      daysResult == DoWhile(Chars62, daysSinceEpoch, <<>>)
      timeResult == DoWhile(Chars62, millisSinceMidnight, <<>>)
  IN  daysResult \o <<":">> \o timeResult

\* compressMillisCustom of benchmark.js
benchmarkCompressMillisCustom(millis) == DoWhile(Chars36, millis, <<>>)

\* ------------------------------------------------------ compressTimestampSeries

\* the loop with a sign only for a positive delta
RECURSIVE SeriesLoopStrictSign(_, _, _, _)
SeriesLoopStrictSign(timestamps, i, prev, result) ==
  IF ~(i < Len(timestamps)) THEN result
  ELSE LET delta        == Sub(timestamps[i + 1], prev)
           deltaEncoded == DoWhile(Chars62, Abs(delta), <<>>)
           signChar     == IF Less(Zero, delta) THEN "+" ELSE "-"
       IN  SeriesLoopStrictSign(timestamps, i + 1, timestamps[i + 1],
                                result \o <<signChar>> \o deltaEncoded)

\* the loop with every delta taken from the first element
RECURSIVE SeriesLoopFixedPrev(_, _, _, _)
SeriesLoopFixedPrev(timestamps, i, prev, result) ==
  IF ~(i < Len(timestamps)) THEN result
  ELSE LET delta        == Sub(timestamps[i + 1], prev)
           deltaEncoded == DoWhile(Chars62, Abs(delta), <<>>)
           signChar     == IF Geq(delta, Zero) THEN "+" ELSE "-"
       IN  SeriesLoopFixedPrev(timestamps, i + 1, prev,
                               result \o <<signChar>> \o deltaEncoded)

\* for (let i = 1; i < timestamps.length; i++) { ... } from index i on, with
\* prev the element before and result the string built so far; timestamps[i]
\* of the source is timestamps[i + 1] here
RECURSIVE SeriesLoop(_, _, _, _)
SeriesLoop(timestamps, i, prev, result) ==
  IF ~(i < Len(timestamps)) THEN result
  ELSE LET delta        == Sub(timestamps[i + 1], prev)
           deltaEncoded == DoWhile(Chars62, Abs(delta), <<>>)
           signChar     == IF Geq(delta, Zero) THEN "+" ELSE "-"
       IN  SeriesLoop(timestamps, i + 1, timestamps[i + 1],
                      result \o <<signChar>> \o deltaEncoded)

\* the series codec whose loop starts at the first element
compressTimestampSeriesFromFirst(timestamps) ==
  IF Len(timestamps) = 0 THEN <<>>
  ELSE SeriesLoop(timestamps, 0, timestamps[1],
                  compressMillisBase62Helper(timestamps[1]))

compressTimestampSeries(timestamps) ==
  IF Len(timestamps) = 0 THEN <<>>
  ELSE SeriesLoop(timestamps, 1, timestamps[1],
                  compressMillisBase62Helper(timestamps[1]))

\* ------------------------------------------------------- The command line

\* number.toString(radix) of an integer, 2 <= radix <= 36
toString(number, radix) ==
  IF number.nan THEN <<"N", "a", "N">>
  ELSE LET digits == DoWhile(SubSeq(Chars36, 1, radix), Abs(number), <<>>)
       IN  IF number.neg THEN <<"-">> \o digits ELSE digits

\* the encoder that writes in radix 32
compressMillisBase32(millis) == toString(millis, 32)

\* compressMillisBase36 of the simple benchmark: millis.toString(36)
compressMillisBase36(millis) == toString(millis, 36)

\* the 2^63 and 2^64 of a 64-bit integer
Two63 == Num(9223372, 36854, 775808)

Two64 == Num(18446744, 73709, 551616)

\* the count least significant bytes of u, the most significant one first
RECURSIVE BytesBE(_, _)
BytesBE(u, count) ==
  IF count = 0 THEN <<>>
  ELSE Append(BytesBE(MagDiv(u, 256), count - 1), MagMod(u, 256))

\* buffer.toString('base64') of the 8-byte buffer: the last group has two
\* bytes and is padded with '='
Base64Of8(buf) ==
  Base64Group(buf[1], buf[2], buf[3]) \o Base64Group(buf[4], buf[5], buf[6])
    \o SubSeq(Base64Group(buf[7], buf[8], 0), 1, 3) \o <<"=">>

\* BigInt(millis) throws a RangeError for NaN; writeBigInt64BE throws one
\* outside -2^63 .. 2^63 - 1 and writes the two's complement otherwise
compressMillisBase64(millis) ==
  IF millis.nan THEN Threw
  ELSE IF ~millis.neg /\ ~MagLess(millis, Two63) THEN Threw
  ELSE IF millis.neg /\ MagLess(Two63, millis) THEN Threw
  ELSE LET u == IF millis.neg THEN MagSub(Two64, millis) ELSE millis
       IN  Returned(Base64Of8(BytesBE(u, 8)))

\* the white space parseInt skips
WhiteSpace == {" "}

DecimalDigits == { Digits[i] : i \in 1 .. Len(Digits) }

\* the first position of string whose character is not in set; one past the
\* end when there is none
FirstOutside(string, set) ==
  LET outside == { i \in 1 .. Len(string) : string[i] \notin set }
                   \cup { Len(string) + 1 }
  IN  CHOOSE i \in outside : \A k \in outside : i <= k

\* the integer the decimal digits z[i .. j] stand for
RECURSIVE DecimalInt(_, _, _)
DecimalInt(z, i, j) ==
  IF j < i THEN 0
  ELSE DecimalInt(z, i, j - 1) * 10
         + (CHOOSE d \in 1 .. Len(Digits) : Digits[d] = z[j]) - 1

\* the integer the decimal digits z stand for, six digits to a limb
MathematicalValue(z) ==
  LET n  == Len(z)
      lo == IF n > 6 THEN n - 5 ELSE 1
      mi == IF n > 12 THEN n - 11 ELSE 1
  IN  Num(DecimalInt(z, 1, n - 12), DecimalInt(z, mi, n - 6),
          DecimalInt(z, lo, n))

\* parseInt(string, 10): leading white space is skipped, a sign is read, the
\* longest run of decimal digits is the number and what follows it is
\* ignored; NaN without a digit. The value is exact up to 2^53.
parseInt(string) ==
  LET S == SubSeq(string, FirstOutside(string, WhiteSpace), Len(string))
      negative == S # <<>> /\ Head(S) = "-"
      rest == IF S # <<>> /\ Head(S) \in {"+", "-"} THEN Tail(S) ELSE S
      Z == SubSeq(rest, 1, FirstOutside(rest, DecimalDigits) - 1)
  IN  IF Z = <<>> THEN NaN
      ELSE IF negative THEN Neg(MathematicalValue(Z))
      ELSE MathematicalValue(Z)

\* one representation: its label and the outcome of computing it
Step(label, result) == [label |-> label, result |-> result]

\* the representations of processTimestamp, in the order they are computed
\* and printed
processTimestamp(tz, millis) ==
  LET dt == millisecondsToDaysAndTime(tz, millis)
      daysRepr == toString(dt.daysSinceEpoch, 10) \o <<",">>
                    \o toString(dt.millisSinceMidnight, 10)
  IN  << Step("Original timestamp", Returned(toString(millis, 10))),
         Step("Days since epoch", Returned(daysRepr)),
         Step("Base64 representation", compressMillisBase64(millis)),
         Step("Base36 representation", Returned(compressMillisCustom(millis))),
         Step("Base62 representation", Returned(compressMillisBase62(millis))),
         Step("Split Days/Time (Base62)",
              Returned(compressSplitDaysTime(tz, millis))),
         Step("Hexadecimal representation", Returned(toString(millis, 16))) >>

\* the representations of processTimestampEnhanced, in the order they are
\* computed and printed
processTimestampEnhanced(millis) ==
  LET series == << millis, Add(millis, FromInt(5000)),
                   Add(millis, FromInt(12000)) >>
  IN  << Step("Original timestamp", Returned(toString(millis, 10))),
         Step("Base62 representation (existing)",
              Returned(compressMillisBase62(millis))),
         Step("Base94 representation", Returned(compressMillisBase94(millis))),
         Step("Variable-length representation",
              Returned(compressMillisVariable(millis, <<>>))),
         Step("Bit-packed representation", compressMillisBitPacked(millis)),
         Step("Delta encoded", Returned(compressTimestampSeries(series))) >>

\* what has been printed when the steps run in order: every representation
\* before the first one that throws
RECURSIVE Printed(_)
Printed(steps) ==
  IF steps = <<>> \/ Head(steps).result.threw THEN <<>>
  ELSE <<[label |-> Head(steps).label, repr |-> Head(steps).result.value]>>
         \o Printed(Tail(steps))

Throws(steps) == \E i \in 1 .. Len(steps) : steps[i].result.threw

\* ----------------------------------------------------------------- Inputs

\* the small timestamps -MaxSmall .. MaxSmall are enumerated one by one
MaxSmall == 40

\* around each anchor, the timestamps anchor - Near .. anchor + Near
Near == 1

\* Number.MAX_SAFE_INTEGER = 2^53 - 1: up to here Number arithmetic is exact
MaxSafe == Num(9007, 199254, 740991)

\* the README's example timestamp, 1757546400000
Example == Num(1, 757546, 400000)

\* the first instant of day 65536, 5662310400000
Day65536 == Num(5, 662310, 400000)

Zones ==
  { Zone(0, 0, Zero, Zero),                            \* UTC
    Zone(19800000, 19800000, Zero, Zero),              \* Asia/Kolkata
    Zone(3600000, 7200000,                             \* Europe/Berlin 2025
         Num(1, 743296, 400000), Num(1, 761440, 400000)),
    Zone(0 - 18000000, 0 - 14400000,                   \* America/New_York 2025
         Num(1, 741503, 600000), Num(1, 762063, 200000)),
    Zone(0 - 18000000, 0 - 14400000,                   \* America/Havana 2025
         Num(1, 741496, 400000), Num(1, 762059, 600000)),
    Zone(0 - 10800000, 0 - 7200000,                    \* America/Sao_Paulo 2018
         Num(1, 541300, 400000), Num(1, 550368, 800000)) }

\* instants where the codecs change behaviour: powers of the bases, day
\* boundaries, the reference date, the 16-bit day limit, midnights and
\* transitions of the zones, the limits of Date and of exact integers
Anchors ==
  { FromInt(62), FromInt(90), FromInt(94), FromInt(1296), FromInt(3844),
    FromInt(8100), FromInt(238328), FromInt(MS_PER_DAY),
    FromInt(2 * MS_PER_DAY), DefaultReferenceDate, Example,
    Num(0, 529459, 200000), Num(3, 521614, 606208),
    Sub(Day65536, FromInt(MS_PER_DAY)), Day65536,
    Num(1, 743296, 400000), Num(1, 761440, 400000),
    Num(1, 741503, 600000), Num(1, 762063, 200000),
    Num(1, 741496, 400000), Num(1, 762059, 600000),
    Num(1, 541300, 400000), Num(1, 550368, 800000),
    Num(1, 762056, 0), Num(1, 550372, 400000),
    Num(1, 743294, 600000), Num(1, 743377, 400000),
    MaxTime }

\* every difference of a timestamp and a reference date stays within
\* -MaxSafe .. MaxSafe
Timestamps ==
  { FromInt(i) : i \in (0 - MaxSmall) .. MaxSmall }
    \cup { Add(a, FromInt(k)) : a \in Anchors, k \in (0 - Near) .. Near }
    \cup { Neg(a) : a \in Anchors }
    \cup { Sub(MaxSafe, FromInt(k)) : k \in 0 .. Near }

\* explicit reference dates passed to compressMillisVariable
References == { Zero, FromInt(62), Example, DefaultReferenceDate }

\* the loop run step by step is followed for up to MaxIterations iterations
\* (a Number below 2^53 has 11 digits in base 36)
MaxIterations == 12

\* series passed to compressTimestampSeries have 0 .. MaxSeriesLen elements
MaxSeriesLen == 3

\* a first timestamp for the series of the demo, 1700000000000
SeriesStart == Num(1, 700000, 0)

\* the elements of the series: around 0 and the base, and the demo's series
\* [millis, millis + 5000, millis + 12000] from SeriesStart
SeriesTimestamps ==
  { FromInt(0 - 1), Zero, FromInt(1), FromInt(62),
    SeriesStart, Add(SeriesStart, FromInt(5000)),
    Add(SeriesStart, FromInt(12000)) }

RECURSIVE SeriesOfLen(_)
SeriesOfLen(n) ==
  IF n = 0 THEN { <<>> }
  ELSE { Append(s, t) : s \in SeriesOfLen(n - 1), t \in SeriesTimestamps }

SeriesInputs == UNION { SeriesOfLen(n) : n \in 0 .. MaxSeriesLen }

\* the command-line arguments tried: integers in the exact range of a
\* Number, with and without sign, space and trailing text, and no integers
Arguments ==
  { <<"a", "b", "c">>,
    <<>>,
    <<"1", "2", "a", "b", "c">>,
    <<"a", "b", "c", "1", "2">>,
    <<"1", "e", "3">>,
    <<"1", ".", "5">>,
    <<" ", "4", "2">>,
    <<"-">>,
    <<"+", "7">>,
    <<"0">>,
    <<"4", "2">>,
    <<"-", "5">>,
    <<"-", "1">>,
    <<"-", "-", "1">>,
    <<"0", "x", "1", "0">>,
    <<"1", "2", " ", "3", "4">>,
    <<"1", "7", "5", "7", "5", "4", "6", "4", "0", "0", "0", "0", "0">>,
    <<"1", "5", "7", "7", "8", "3", "6", "8", "0", "0", "0", "0", "0">>,
    <<"5", "6", "6", "2", "3", "1", "0", "4", "0", "0", "0", "0", "0">>,
    <<"5", "6", "6", "2", "3", "1", "0", "3", "9", "9", "9", "9", "9">>,
    <<"-", "8", "6", "4", "0", "0", "0", "0", "0">>,
    <<"-", "1", "7", "5", "7", "5", "4", "6", "4", "0", "0", "0", "0", "0">>,
    <<"8", "6", "4", "0", "0", "0", "0", "0", "0", "0", "0", "0", "0", "0", "0", "0">>,
    <<"8", "6", "4", "0", "0", "0", "0", "0", "0", "0", "0", "0", "0", "0", "0", "1">>,
    <<"9", "0", "0", "7", "1", "9", "9", "2", "5", "4", "7", "4", "0", "9", "9", "1">>,
    <<"-", "9", "0", "0", "7", "1", "9", "9", "2", "5", "4", "7", "4", "0", "9", "9", "1">>,
    <<"n", "o", "w">>,
    <<"7", " ">>,
    <<"1", ",", "0", "0", "0">>,
    <<"6", "2">> }

\* the values of Date.now() tried
Now == { Example, Add(Example, FromInt(1)) }

\* ------------------------------------------------------------------ State

VARIABLES
  tz,             \* the process's time zone
  fn,             \* the codec called last
  millis,         \* the timestamp the codecs are called with
  referenceArg,   \* the optional reference date argument: <<>> or <<date>>
  timestamps,     \* the series compressTimestampSeries is called with
  out,            \* the outcome of the last call
  program,        \* the script node runs: "none" when a codec is called directly
  argv,           \* its command-line arguments after the script: <<>> or <<arg>>
  pc,             \* "start" before main() runs, "exit" or "crash" after it
  exitCode,       \* the exit status of the process
  stdout,         \* the representations printed by console.log
  stderr,         \* the lines written to standard error
  loop            \* the do-while loop of an encoder, run step by step

cliVars == <<program, argv, pc, exitCode, stdout, stderr>>

vars == <<tz, fn, millis, referenceArg, timestamps, out, cliVars, loop>>

\* no loop is run step by step
NoLoop ==
  [chars |-> <<>>, number |-> Zero, result |-> <<>>, iterations |-> 0,
   pc |-> "none"]

\* no script runs
NoProgram ==
  /\ program = "none"
  /\ argv = <<>>
  /\ pc = "none"
  /\ exitCode = 0
  /\ stdout = <<>>
  /\ stderr = <<>>

\* the inputs are drawn here; every call below applies one codec to them
Init ==
  /\ tz \in Zones
  /\ millis \in Timestamps
  /\ referenceArg \in {<<>>} \cup { <<r>> : r \in References }
  /\ timestamps = <<>>
  /\ fn = "none"
  /\ out = Returned(<<>>)
  /\ NoProgram
  /\ loop = NoLoop

\* the Base36 call with a result string that is kept from call to call
CallCompressMillisCustomStateful ==
  /\ fn' = "compressMillisCustom"
  /\ out' = Returned(DoWhile(Chars36, millis, out.value))
  /\ UNCHANGED <<tz, millis, referenceArg, timestamps, cliVars, loop>>

CallCompressMillisCustom ==
  /\ fn' = "compressMillisCustom"
  /\ out' = Returned(compressMillisCustom(millis))
  /\ UNCHANGED <<tz, millis, referenceArg, timestamps, cliVars, loop>>

CallCompressMillisBase62 ==
  /\ fn' = "compressMillisBase62"
  /\ out' = Returned(compressMillisBase62(millis))
  /\ UNCHANGED <<tz, millis, referenceArg, timestamps, cliVars, loop>>

CallCompressMillisBase94 ==
  /\ fn' = "compressMillisBase94"
  /\ out' = Returned(compressMillisBase94(millis))
  /\ UNCHANGED <<tz, millis, referenceArg, timestamps, cliVars, loop>>

CallCompressMillisVariable ==
  /\ fn' = "compressMillisVariable"
  /\ out' = Returned(compressMillisVariable(millis, referenceArg))
  /\ UNCHANGED <<tz, millis, referenceArg, timestamps, cliVars, loop>>

CallCompressMillisBitPacked ==
  /\ fn' = "compressMillisBitPacked"
  /\ out' = compressMillisBitPacked(millis)
  /\ UNCHANGED <<tz, millis, referenceArg, timestamps, cliVars, loop>>

CallCompressSplitDaysTime ==
  /\ fn' = "compressSplitDaysTime"
  /\ out' = Returned(compressSplitDaysTime(tz, millis))
  /\ UNCHANGED <<tz, millis, referenceArg, timestamps, cliVars, loop>>

Next ==
  \/ CallCompressMillisCustom
  \/ CallCompressMillisBase62
  \/ CallCompressMillisBase94
  \/ CallCompressMillisVariable
  \/ CallCompressMillisBitPacked
  \/ CallCompressSplitDaysTime

Spec == Init /\ [][Next]_vars

\* --------------------------------------------------------------- The series

\* the series is drawn here; the single timestamp plays no part
InitSeries ==
  /\ tz = Zone(0, 0, Zero, Zero)
  /\ millis = Zero
  /\ referenceArg = <<>>
  /\ timestamps \in SeriesInputs
  /\ fn = "none"
  /\ out = Returned(<<>>)
  /\ NoProgram
  /\ loop = NoLoop

CallCompressTimestampSeries ==
  /\ fn' = "compressTimestampSeries"
  /\ out' = Returned(compressTimestampSeries(timestamps))
  /\ UNCHANGED <<tz, millis, referenceArg, timestamps, cliVars, loop>>

NextSeries == CallCompressTimestampSeries

SpecSeries == InitSeries /\ [][NextSeries]_vars

\* ------------------------------------------------------ The ambient time zone
\* getFullYear, getMonth and getDate read the time zone of the process that
\* runs the call. Here a call is repeated, with the same arguments, by a
\* process whose time zone may be another one.

\* the timestamps the repeated calls are made with
AmbientTimestamps ==
  { FromInt(0 - 1), Zero, FromInt(62), Example, Num(1, 743294, 600000),
    Add(MaxTime, FromInt(1)) }

InitAmbient ==
  /\ tz \in Zones
  /\ millis \in AmbientTimestamps
  /\ referenceArg \in { <<>>, <<Example>> }
  /\ timestamps \in { <<>>, <<Example, Example, Zero>> }
  /\ fn = "none"
  /\ out = Returned(<<>>)
  /\ NoProgram
  /\ loop = NoLoop

\* the outcome of codec f called with these arguments in time zone z
Apply(f, z, m, r, s) ==
  CASE f = "compressMillisCustom" -> Returned(compressMillisCustom(m))
    [] f = "compressMillisBase62" -> Returned(compressMillisBase62(m))
    [] f = "compressMillisBase94" -> Returned(compressMillisBase94(m))
    [] f = "compressMillisVariable" -> Returned(compressMillisVariable(m, r))
    [] f = "compressMillisBitPacked" -> compressMillisBitPacked(m)
    [] f = "compressSplitDaysTime" -> Returned(compressSplitDaysTime(z, m))
    [] f = "compressTimestampSeries" -> Returned(compressTimestampSeries(s))

\* the codec called last is called again, with the same arguments, where the
\* time zone is z
CallAgainElsewhere ==
  \E z \in Zones :
    /\ fn # "none"
    /\ tz' = z
    /\ out' = Apply(fn, z, millis, referenceArg, timestamps)
    /\ UNCHANGED <<fn, millis, referenceArg, timestamps, cliVars, loop>>

NextAmbient ==
  \/ Next
  \/ CallCompressTimestampSeries
  \/ CallAgainElsewhere

SpecAmbient == InitAmbient /\ [][NextAmbient]_vars

\* ------------------------------------------------------------- The scripts

Scripts == {"time_converter", "enhanced_demo"}

InitCli ==
  /\ tz \in Zones
  /\ program \in Scripts
  /\ argv \in {<<>>} \cup { <<a>> : a \in Arguments }
  /\ pc = "start"
  /\ exitCode = 0
  /\ stdout = <<>>
  /\ stderr = <<>>
  /\ millis = NaN
  /\ referenceArg = <<>>
  /\ timestamps = <<>>
  /\ fn = "none"
  /\ out = Returned(<<>>)
  /\ loop = NoLoop

\* console.error(...); process.exit(1)
ExitWithError ==
  /\ millis' = NaN
  /\ stderr' = <<"Error: Please provide a valid integer for milliseconds.">>
  /\ stdout' = <<>>
  /\ exitCode' = 1
  /\ pc' = "exit"

\* the steps run after the lines of head were printed: they print until one
\* throws; nothing catches what is thrown, so node reports it on standard
\* error and exits with status 1
RunSteps(head, steps) ==
  /\ stdout' = head \o Printed(steps)
  /\ IF Throws(steps)
     THEN /\ stderr' = <<"Uncaught RangeError">>
          /\ exitCode' = 1
          /\ pc' = "crash"
     ELSE /\ stderr' = <<>>
          /\ exitCode' = 0
          /\ pc' = "exit"

NoTimestampProvided ==
  <<[label |-> "No timestamp provided. Using current time.", repr |-> <<>>]>>

\* node time_converter.js [arg]: main() and the processTimestamp it calls
MainTimeConverter ==
  /\ program = "time_converter"
  /\ pc = "start"
  /\ IF Len(argv) > 0
     THEN LET parsed == parseInt(argv[1])
          IN  IF parsed.nan THEN ExitWithError
              ELSE /\ millis' = parsed
                   /\ RunSteps(<<>>, processTimestamp(tz, parsed))
     ELSE \E now \in Now :
            /\ millis' = now
            /\ RunSteps(NoTimestampProvided, processTimestamp(tz, now))
  /\ UNCHANGED <<tz, fn, referenceArg, timestamps, out, program, argv, loop>>

\* node enhanced_demo.js [arg]: main() and the processTimestampEnhanced it
\* calls
MainEnhancedDemo ==
  /\ program = "enhanced_demo"
  /\ pc = "start"
  /\ IF Len(argv) > 0
     THEN LET parsed == parseInt(argv[1])
          IN  IF parsed.nan THEN ExitWithError
              ELSE /\ millis' = parsed
                   /\ RunSteps(<<>>, processTimestampEnhanced(parsed))
     ELSE \E now \in Now :
            /\ millis' = now
            /\ RunSteps(NoTimestampProvided, processTimestampEnhanced(now))
  /\ UNCHANGED <<tz, fn, referenceArg, timestamps, out, program, argv, loop>>

NextCli ==
  \/ MainTimeConverter
  \/ MainEnhancedDemo

SpecCli == InitCli /\ [][NextCli]_vars

\* ----------------------------------------------------------- The do-while loop
\* The loop of the encoders, one iteration to a step:
\*   do { result = chars[number % base] + result;
\*        number = Math.floor(number / base); } while (number > 0);

Alphabets == { Chars36, Chars62, Chars94 }

\* let result = ""; let number = millis;
InitLoop ==
  /\ tz = Zone(0, 0, Zero, Zero)
  /\ millis \in Timestamps
  /\ referenceArg = <<>>
  /\ timestamps = <<>>
  /\ fn = "none"
  /\ out = Returned(<<>>)
  /\ NoProgram
  /\ loop \in { [chars |-> c, number |-> millis, result |-> <<>>,
                 iterations |-> 0, pc |-> "do"] : c \in Alphabets }

\* one iteration that goes on while number is not negative
IterateUntilNegative ==
  /\ loop.pc = "do"
  /\ loop.iterations < MaxIterations
  /\ LET result == CharAt(loop.chars, loop.number) \o loop.result
         number == FloorDiv(loop.number, Len(loop.chars))
     IN  loop' = [loop EXCEPT !.result = result,
                              !.number = number,
                              !.iterations = @ + 1,
                              !.pc = IF ~loop.number.nan /\ Geq(number, Zero)
                                     THEN "do" ELSE "return"]
  /\ UNCHANGED <<tz, fn, millis, referenceArg, timestamps, out, cliVars>>

\* one iteration: the body, then the test of while (number > 0)
Iterate ==
  /\ loop.pc = "do"
  /\ loop.iterations < MaxIterations
  /\ LET result == CharAt(loop.chars, loop.number) \o loop.result
         number == FloorDiv(loop.number, Len(loop.chars))
     IN  loop' = [loop EXCEPT !.result = result,
                              !.number = number,
                              !.iterations = @ + 1,
                              !.pc = IF ~loop.number.nan /\ Less(Zero, number)
                                     THEN "do" ELSE "return"]
  /\ UNCHANGED <<tz, fn, millis, referenceArg, timestamps, out, cliVars>>

\* return result;
Return ==
  /\ loop.pc = "return"
  /\ loop' = [loop EXCEPT !.pc = "done"]
  /\ fn' = "do-while"
  /\ out' = Returned(loop.result)
  /\ UNCHANGED <<tz, millis, referenceArg, timestamps, cliVars>>

NextLoop ==
  \/ Iterate
  \/ Return

\* the loop is single-threaded code that runs to its end: a step that can be
\* taken is taken
SpecLoop == InitLoop /\ [][NextLoop]_vars /\ WF_vars(NextLoop)

\* ----------------------------------------------------------- The benchmarks
\* The encoders of the benchmark scripts, called with the timestamps the
\* converter's encoders are called with.

InitBenchmark ==
  /\ tz \in Zones
  /\ millis \in Timestamps
  /\ referenceArg = <<>>
  /\ timestamps = <<>>
  /\ fn = "none"
  /\ out = Returned(<<>>)
  /\ NoProgram
  /\ loop = NoLoop

CallBenchmarkCompressSplitDaysTime ==
  /\ fn' = "benchmark.compressSplitDaysTime"
  /\ out' = Returned(benchmarkCompressSplitDaysTime(tz, millis))
  /\ UNCHANGED <<tz, millis, referenceArg, timestamps, cliVars, loop>>

CallBenchmarkCompressMillisCustom ==
  /\ fn' = "benchmark.compressMillisCustom"
  /\ out' = Returned(benchmarkCompressMillisCustom(millis))
  /\ UNCHANGED <<tz, millis, referenceArg, timestamps, cliVars, loop>>

CallCompressMillisBase36 ==
  /\ fn' = "compressMillisBase36"
  /\ out' = Returned(compressMillisBase36(millis))
  /\ UNCHANGED <<tz, millis, referenceArg, timestamps, cliVars, loop>>

NextBenchmark ==
  \/ CallBenchmarkCompressSplitDaysTime
  \/ CallBenchmarkCompressMillisCustom
  \/ CallCompressMillisBase36
  \/ CallCompressSplitDaysTime
  \/ CallCompressMillisCustom

SpecBenchmark == InitBenchmark /\ [][NextBenchmark]_vars

\* ----------------------------------------------------------------- Decoding
\* The repository has no decoder; these read an encoded string back as its
\* documentation describes, to state the properties of the encoders.

Range(str) == { str[i] : i \in 1 .. Len(str) }

InAlphabet(chars, str) == \A i \in 1 .. Len(str) : str[i] \in Range(chars)

\* the digit a character of the alphabet stands for
DigitOf(chars, c) == (CHOOSE i \in 1 .. Len(chars) : chars[i] = c) - 1

\* the positional value of str in base Len(chars), most significant digit
\* first, on top of the value acc of the digits already read
RECURSIVE ValueFrom(_, _, _)
ValueFrom(chars, str, acc) ==
  IF str = <<>> THEN acc
  ELSE ValueFrom(chars, Tail(str),
                 MagAdd(MagMul(acc, Len(chars)),
                        FromInt(DigitOf(chars, Head(str)))))

Value(chars, str) == ValueFrom(chars, str, Zero)

Encoders ==
  {"compressMillisCustom", "compressMillisBase62", "compressMillisBase94"}

AlphabetOf(f) ==
  CASE f = "compressMillisCustom" -> Chars36
    [] f = "compressMillisBase62" -> Chars62
    [] OTHER -> Chars94

\* ------------------------------------------------------------------- Claims

\* C1: for a non-negative integer each direct encoder returns a non-empty
\* string over its own alphabet whose positional value, most significant
\* digit first, in the base of the alphabet's length is the input; its first
\* character is the alphabet's first one only for the input 0.
C1_PositionalValue ==
  (fn \in Encoders /\ ~millis.neg) =>
    LET chars == AlphabetOf(fn)
        str   == out.value
    IN  /\ ~out.threw
        /\ Len(str) >= 1
        /\ InAlphabet(chars, str)
        /\ Value(chars, str) = millis
        /\ (str[1] = chars[1] => IsZero(millis))

C1_Witness ==
  /\ fn = "compressMillisBase94"
  /\ millis = Example
  /\ out.value = <<"3", "r", "V", "+", "B", "3", "u">>

\* C2: each positional encoder returns for 0 the one-character string of its
\* alphabet's first character, which is "0" for all three.
C2_ZeroCase ==
  (fn \in Encoders /\ IsZero(millis)) =>
    /\ out = Returned(<<AlphabetOf(fn)[1]>>)
    /\ out.value = <<"0">>

C2_Witness == fn = "compressMillisBase62" /\ IsZero(millis) /\ Len(out.value) = 1

\* the double quote, the single quote, the backslash and the backtick,
\* written as atoms
DoubleQuote == "DQUOTE"

SingleQuote == "SQUOTE"

Backslash == "BACKSLASH"

Backtick == "BACKTICK"

\* the 95 printable ASCII characters
PrintableAscii ==
  Range(Digits) \cup Range(Lower) \cup Range(Upper) \cup
  { " ", "!", DoubleQuote, "#", "$", "%", "&", SingleQuote, "(", ")", "*",
    "+", ",", "-", ".", "/", ":", ";", "<", "=", ">", "?", "@", "[",
    Backslash, "]", "^", "_", Backtick, "{", "|", "}", "~" }

\* C3: the alphabet compressMillisBase94 encodes with has exactly 94 pairwise
\* distinct printable ASCII characters, none of them space, double quote,
\* single quote, backslash or backtick, so that the encoder works in base 94
\* (94 encodes as "10").
C3_Base94Alphabet ==
  fn = "compressMillisBase94" =>
    /\ Len(Chars94) = 94
    /\ Cardinality(Range(Chars94)) = Len(Chars94)
    /\ Range(Chars94) \subseteq PrintableAscii
    /\ Range(Chars94) \cap {" ", DoubleQuote, SingleQuote, Backslash, Backtick} = {}
    /\ (millis = FromInt(94) => out.value = <<"1", "0">>)

\* C4: for a negative input the positional encoders fail with an error and
\* return no string.
C4_NegativeFails ==
  (fn \in Encoders /\ millis.neg) => out.threw

\* the reference date a call to compressMillisVariable works with
ReferenceUsed ==
  IF referenceArg = <<>> THEN Num(1, 577836, 800000) ELSE referenceArg[1]

\* |millis - reference|, from the order of the two
Distance(a, b) == IF Less(a, b) THEN Sub(b, a) ELSE Sub(a, b)

\* C5: compressMillisVariable(ts, r) is one sign character, '+' when
\* ts >= r and '-' otherwise, followed by the Base62 encoding of |ts - r|:
\* its length is 1 plus that encoding's; ts = r gives "+0", ts = r - 1 starts
\* with '-', and an omitted r stands for 1577836800000.
C5_SignAndMagnitude ==
  fn = "compressMillisVariable" =>
    LET r   == ReferenceUsed
        str == out.value
        mag == Distance(millis, r)
    IN  /\ ~out.threw
        /\ str[1] = (IF Less(millis, r) THEN "-" ELSE "+")
        /\ Tail(str) = compressMillisBase62(mag)
        /\ Len(str) = 1 + Len(compressMillisBase62(mag))
        /\ InAlphabet(Chars62, Tail(str))
        /\ Value(Chars62, Tail(str)) = mag
        /\ (millis = r => str = <<"+", "0">>)
        /\ (millis = Sub(r, FromInt(1)) => str[1] = "-")

C5_Witness ==
  /\ fn = "compressMillisVariable"
  /\ referenceArg = <<>>
  /\ millis = Num(1, 577836, 799999)
  /\ out.value = <<"-", "1">>

\* C6: reading compressMillisVariable(ts, r) back - the sign character, the
\* Base62 value of the rest, the sign applied, r added - gives ts, for
\* negative ts too; no other timestamp has the same string under the same
\* reference.
C6_ReferenceRoundTrip ==
  fn = "compressMillisVariable" =>
    LET str == out.value
    IN  /\ ~out.threw
        /\ Len(str) >= 2
        /\ str[1] \in {"+", "-"}
        /\ InAlphabet(Chars62, Tail(str))
        /\ LET mag    == Value(Chars62, Tail(str))
               signed == IF str[1] = "-" THEN Neg(mag) ELSE mag
           IN  Add(signed, ReferenceUsed) = millis
        /\ \A t \in Timestamps :
             t # millis => compressMillisVariable(t, referenceArg) # str

C6_Witness ==
  /\ fn = "compressMillisVariable"
  /\ referenceArg = <<Example>>
  /\ millis = FromInt(0 - 1)
  /\ out.value[1] = "-"

HasFallbackMarker(str) == Len(str) >= 2 /\ str[1] = "F" /\ str[2] = "_"

\* C7: compressMillisBitPacked returns "F_" + Base62(ts) exactly when
\* floor(ts / 86400000) > 65535, that is from 5662310400000 on: day 65535 is
\* still packed, and the text after "F_" is the Base62 encoding of ts.
C7_FallbackBoundary ==
  fn = "compressMillisBitPacked" =>
    LET fallback == ~out.threw /\ HasFallbackMarker(out.value)
        rest     == SubSeq(out.value, 3, Len(out.value))
    IN  /\ fallback <=> Less(FromInt(65535), FloorDivDay(millis))
        /\ fallback <=> Geq(millis, Day65536)
        /\ fallback =>
             /\ rest = compressMillisBase62(millis)
             /\ InAlphabet(Chars62, rest)
             /\ Value(Chars62, rest) = millis

C7_Witness ==
  /\ fn = "compressMillisBitPacked"
  /\ millis = Day65536
  /\ out.value = <<"F", "_", "1", "B", "G", "F", "f", "o", "k", "M">>

\* the bytes four base64 characters stand for
Base64Bytes(c1, c2, c3, c4) ==
  LET s1 == DigitOf(Base64Chars, c1)
      s2 == DigitOf(Base64Chars, c2)
      s3 == DigitOf(Base64Chars, c3)
      s4 == DigitOf(Base64Chars, c4)
  IN  << s1 * 4 + (s2 \div 16), (s2 % 16) * 16 + (s3 \div 4),
         (s3 % 4) * 64 + s4 >>

\* the unsigned big-endian integer of a byte sequence, on top of acc
RECURSIVE BigEndian(_, _)
BigEndian(bytes, acc) ==
  IF bytes = <<>> THEN acc
  ELSE BigEndian(Tail(bytes), MagAdd(MagMul(acc, 256), FromInt(Head(bytes))))

\* C8: for 0 <= ts with floor(ts / 86400000) <= 65535 the result is 8 base64
\* characters, without padding, of 6 bytes: the days as a 2-byte and
\* ts mod 86400000 as a 4-byte big-endian unsigned integer; read back,
\* days * 86400000 + millisInDay = ts.
C8_SixBytesRoundTrip ==
  (fn = "compressMillisBitPacked" /\ ~millis.neg /\ Less(millis, Day65536)) =>
    LET str == out.value
    IN  /\ ~out.threw
        /\ Len(str) = 8
        /\ InAlphabet(Base64Chars, str)
        /\ LET bytes == Base64Bytes(str[1], str[2], str[3], str[4])
                          \o Base64Bytes(str[5], str[6], str[7], str[8])
               days  == BigEndian(SubSeq(bytes, 1, 2), Zero)
               ms    == BigEndian(SubSeq(bytes, 3, 6), Zero)
           IN  /\ days = FloorDivDay(millis)
               /\ ms = RemDay(millis)
               /\ Less(ms, FromInt(MS_PER_DAY))
               /\ Add(TimesDay(days), ms) = millis

C8_Witness ==
  /\ fn = "compressMillisBitPacked"
  /\ millis = Example
  /\ out.value = <<"T", "3", "U", "F", "A", "b", "0", "A">>

\* C9: the two forms differ by their prefix: a result starts with "F_" when
\* it is the fallback of a day above 65535, and a packed result, 8 base64
\* characters of a day up to 65535, never starts with "F_".
C9_PrefixDistinguishes ==
  (fn = "compressMillisBitPacked" /\ ~out.threw) =>
    LET str    == out.value
        packed == Len(str) = 8 /\ InAlphabet(Base64Chars, str)
    IN  IF Less(FromInt(65535), FloorDivDay(millis))
        THEN HasFallbackMarker(str)
        ELSE packed /\ ~HasFallbackMarker(str)

\* a packed result whose first character is F
C9_Witness ==
  /\ fn = "compressMillisBitPacked"
  /\ millis = Num(0, 529459, 200000)
  /\ out.value = <<"F", "/", "A", "A", "A", "A", "A", "A">>

\* the result of compressSplitDaysTime has the documented shape: Base62 of
\* floor(ts / 86400000), one ':', Base62 of the time since the start of the
\* local calendar day of ts, and no other ':' or foreign character
SplitShape ==
  LET str    == out.value
      colons == { i \in 1 .. Len(str) : str[i] = ":" }
  IN  /\ ~out.threw
      /\ Cardinality(colons) = 1
      /\ LET p        == CHOOSE i \in colons : TRUE
             daysPart == SubSeq(str, 1, p - 1)
             timePart == SubSeq(str, p + 1, Len(str))
         IN  /\ InAlphabet(Chars62, daysPart)
             /\ InAlphabet(Chars62, timePart)
             /\ daysPart = compressMillisBase62(FloorDivDay(millis))
             /\ Value(Chars62, daysPart) = FloorDivDay(millis)
             /\ LET since == Value(Chars62, timePart)
                    start == Sub(millis, since)
                IN  /\ timePart = compressMillisBase62(since)
                    /\ LocalDay(tz, start) = LocalDay(tz, millis)
                    /\ LocalDay(tz, Sub(start, FromInt(1)))
                         # LocalDay(tz, millis)

\* C10 as stated: for every timestamp ts >= 0 compressSplitDaysTime returns
\* BASE62(floor(ts / 86400000)) + ":" + BASE62(ts - start of the local
\* calendar day of ts), with exactly one ':' and Base62 characters otherwise.
C10_AsStated ==
  (fn = "compressSplitDaysTime" /\ ~millis.neg) => SplitShape

\* C10, amended: the same for every timestamp 0 <= ts <= 8640000000000000,
\* the range of a Date; beyond it the Date is invalid and the result is
\* "undefined:undefined".
C10_SplitWithinDateRange ==
  (fn = "compressSplitDaysTime" /\ ~millis.neg /\ ~MagLess(MaxTime, millis))
    => SplitShape

C10_Witness ==
  /\ fn = "compressSplitDaysTime"
  /\ tz.std = 3600000
  /\ millis = Example
  /\ out.value = <<"5", "i", "5", ":", "k", "8", "H", "m">>

\* C11: for a timestamp from 0 up to the end of the range of a Date, in every
\* time zone, millisecondsToDaysAndTime returns a day count that is at least 0
\* and a time of day from 0 up to, not including, 86400000 milliseconds.
C11_DaysAndTimeInRange ==
  (fn = "compressSplitDaysTime" /\ ~millis.neg /\ ValidTime(millis)) =>
    LET dt == millisecondsToDaysAndTime(tz, millis)
    IN  /\ ~dt.daysSinceEpoch.nan
        /\ Geq(dt.daysSinceEpoch, Zero)
        /\ ~dt.millisSinceMidnight.nan
        /\ Geq(dt.millisSinceMidnight, Zero)
        /\ Less(dt.millisSinceMidnight, FromInt(MS_PER_DAY))

\* C12: in a fixed time zone the string of compressSplitDaysTime determines
\* the timestamp: no other timestamp from 0 up to the end of the range of a
\* Date encodes to the string returned for this one.
C12_SplitDeterminesTimestamp ==
  (fn = "compressSplitDaysTime" /\ ~millis.neg /\ ValidTime(millis)) =>
    \A t \in Timestamps :
      (~t.neg /\ ValidTime(t) /\ compressSplitDaysTime(tz, t) = out.value)
        => t = millis

\* the characters that separate the elements of an encoded series
SignChars == {"+", "-"}

CountSigns(str) == Cardinality({ i \in 1 .. Len(str) : str[i] \in SignChars })

\* for the elements i .. Len(s) of the series s: the sign of the difference
\* to the element before, then the Base62 digits of its magnitude
RECURSIVE ExpectedDeltas(_, _)
ExpectedDeltas(s, i) ==
  IF i > Len(s) THEN <<>>
  ELSE LET sign == IF Geq(s[i], s[i - 1]) THEN "+" ELSE "-"
       IN  <<sign>> \o compressMillisBase62(Distance(s[i], s[i - 1]))
             \o ExpectedDeltas(s, i + 1)

DemoSeries ==
  << SeriesStart, Add(SeriesStart, FromInt(5000)),
     Add(SeriesStart, FromInt(12000)) >>

\* C13: for a series of n >= 1 timestamps whose first is not negative the
\* result is Base62 of the first, then for every later element '+' for a
\* difference >= 0 (so "+0" for equal neighbours) or '-' otherwise and Base62
\* of the difference's magnitude, nothing between; it holds n - 1 sign
\* characters, and the series 1700000000000, 1700000005000, 1700000012000 gives
\* Base62(1700000000000) "+" Base62(5000) "+" Base62(7000).
C13_SeriesFormat ==
  (fn = "compressTimestampSeries" /\ Len(timestamps) >= 1
     /\ ~timestamps[1].neg) =>
    /\ ~out.threw
    /\ out.value = compressMillisBase62(timestamps[1])
                     \o ExpectedDeltas(timestamps, 2)
    /\ CountSigns(out.value) = Len(timestamps) - 1
    /\ (timestamps = DemoSeries =>
          out.value = compressMillisBase62(SeriesStart) \o <<"+">>
                        \o compressMillisBase62(FromInt(5000)) \o <<"+">>
                        \o compressMillisBase62(FromInt(7000)))

\* a series that falls and then stays has been encoded
C13_Witness ==
  /\ fn = "compressTimestampSeries"
  /\ Len(timestamps) = 3
  /\ ~timestamps[1].neg
  /\ Less(timestamps[2], timestamps[1])
  /\ timestamps[3] = timestamps[2]
  /\ CountSigns(out.value) = 2
  /\ SubSeq(out.value, Len(out.value) - 1, Len(out.value)) = <<"+", "0">>

\* C14: the empty series gives the empty string; a series of one timestamp
\* gives exactly compressMillisBase62 of it, without a sign character.
C14_EmptyAndSingle ==
  (fn = "compressTimestampSeries") =>
    /\ Len(timestamps) = 0 => out = Returned(<<>>)
    /\ Len(timestamps) = 1 =>
         /\ out = Returned(compressMillisBase62(timestamps[1]))
         /\ CountSigns(out.value) = 0

C14_Witness ==
  /\ fn = "compressTimestampSeries"
  /\ timestamps = <<SeriesStart>>
  /\ Len(out.value) = 7

\* the longest prefix of str made of Base62 digits
RECURSIVE DigitRun(_)
DigitRun(str) ==
  IF str = <<>> \/ Head(str) \notin Range(Chars62) THEN <<>>
  ELSE <<Head(str)>> \o DigitRun(Tail(str))

\* the elements after prev: a sign character, then a longest run of digits
RECURSIVE DecodeDeltas(_, _)
DecodeDeltas(str, prev) ==
  IF str = <<>> THEN <<>>
  ELSE LET run == DigitRun(Tail(str))
           mag == Value(Chars62, run)
           cur == IF Head(str) = "+" THEN Add(prev, mag) ELSE Sub(prev, mag)
       IN  <<cur>> \o DecodeDeltas(SubSeq(str, Len(run) + 2, Len(str)), cur)

\* greedy decoding of an encoded series
DecodeSeries(str) ==
  IF str = <<>> THEN <<>>
  ELSE LET run   == DigitRun(str)
           first == Value(Chars62, run)
       IN  <<first>>
             \o DecodeDeltas(SubSeq(str, Len(run) + 1, Len(str)), first)

\* C15: for a non-empty series whose first timestamp is not negative, greedy
\* decoding of the result gives the series back, and no other such series (of
\* up to two elements) has the same result.
C15_SeriesRoundTrip ==
  (fn = "compressTimestampSeries" /\ Len(timestamps) >= 1
     /\ ~timestamps[1].neg) =>
    /\ DecodeSeries(out.value) = timestamps
    /\ \A s \in SeriesOfLen(1) \cup SeriesOfLen(2) :
         (~s[1].neg /\ compressTimestampSeries(s) = out.value)
           => s = timestamps

\* a series that rises and then falls has been encoded and decodes to itself
C15_Witness ==
  /\ fn = "compressTimestampSeries"
  /\ timestamps = << SeriesStart, Add(SeriesStart, FromInt(12000)),
                     Add(SeriesStart, FromInt(5000)) >>
  /\ DecodeSeries(out.value) = timestamps
  /\ CountSigns(out.value) = 2

SameCall ==
  /\ fn' = fn
  /\ millis' = millis
  /\ referenceArg' = referenceArg
  /\ timestamps' = timestamps

RECURSIVE LexLeq(_, _, _)
LexLeq(chars, a, b) ==
  IF a = <<>> THEN TRUE
  ELSE IF DigitOf(chars, Head(a)) < DigitOf(chars, Head(b)) THEN TRUE
  ELSE IF DigitOf(chars, Head(a)) > DigitOf(chars, Head(b)) THEN FALSE
  ELSE LexLeq(chars, Tail(a), Tail(b))

\* the string the encoder f returns for t
Encode(f, t) == Apply(f, Zone(0, 0, Zero, Zero), t, <<>>, <<>>).value

\* C17: for non-negative a <= b whose encodings by one positional encoder have
\* the same length, the encoding of a is at most that of b in the
\* lexicographic order by alphabet position.
C17_OrderPreserved ==
  (fn \in Encoders /\ ~millis.neg) =>
    \A t \in Timestamps :
      (~t.neg /\ Geq(t, millis) /\ Len(Encode(fn, t)) = Len(out.value))
        => LexLeq(AlphabetOf(fn), out.value, Encode(fn, t))

\* an encoding of several digits has been returned, and a larger timestamp
\* has another encoding of the same length
C17_Witness ==
  /\ fn \in Encoders
  /\ ~millis.neg
  /\ Len(out.value) >= 7
  /\ \E t \in Timestamps :
       /\ Less(millis, t)
       /\ Len(Encode(fn, t)) = Len(out.value)
       /\ Encode(fn, t) # out.value
       /\ Head(Encode(fn, t)) # Head(out.value)

\* an argument that reads as a number: digits, with at most signs, a decimal
\* point or separator, an exponent or hexadecimal mark and spaces around them
IsNumeric(arg) ==
  /\ \A i \in 1 .. Len(arg) :
       arg[i] \in Range(Digits) \cup {"+", "-", ".", ",", "e", "x", " "}
  /\ \E i \in 1 .. Len(arg) : arg[i] \in Range(Digits)

\* C18: when either script has run with an argument that is not numeric, it
\* has written an error message, exited with a non-zero status and printed no
\* representation; when it has run without an argument, it has processed the
\* current time.
C18_NonNumericRejected ==
  (program \in Scripts /\ pc # "start") =>
    /\ (Len(argv) > 0 /\ ~IsNumeric(argv[1])) =>
         (exitCode # 0 /\ stderr # <<>> /\ stdout = <<>>)
    /\ Len(argv) = 0 => (millis \in Now /\ stdout # <<>>)

\* C19: when either script has run with an argument that parseInt accepts, it
\* has not ended through an exception that nothing caught.
C19_NoUncaughtException ==
  (program \in Scripts /\ pc # "start" /\ Len(argv) > 0
     /\ ~parseInt(argv[1]).nan) =>
    pc # "crash"

RECURSIVE DigitCount(_, _, _, _)
DigitCount(x, b, power, L) ==
  IF MagLess(x, power) \/ L > MaxIterations THEN L
  ELSE DigitCount(x, b, MagMul(power, b), L + 1)

NumberOfDigits(x, b) == DigitCount(x, b, FromInt(b), 1)

\* C21: the do-while loop of the encoders comes to its end for every integer
\* input; when it has, it ran as many iterations as the input has digits in
\* the base for an input >= 0 (one for 0) and a single iteration for a
\* negative input, and returned what the encoder returns.
C21_LoopTerminates ==
  /\ <>(loop.pc = "done")
  /\ [](loop.pc = "done" =>
          /\ ~millis.neg =>
               loop.iterations = NumberOfDigits(millis, Len(loop.chars))
          /\ millis.neg => loop.iterations = 1
          /\ out.value = DoWhile(loop.chars, millis, <<>>))

\* the loop has ended after one iteration for each of the 7 Base62 digits of
\* 1757546400000
C21_Witness ==
  /\ loop.pc = "done"
  /\ loop.chars = Chars62
  /\ millis = Example
  /\ loop.iterations = 7
  /\ Len(out.value) = 7

SplitCalled ==
  fn \in {"compressSplitDaysTime", "benchmark.compressSplitDaysTime"}

ZeroOffset == tz.std = 0 /\ tz.dst = 0

\* what C24 says of the pair dt returned for millis: the days are the UTC
\* day count; with a zero offset the milliseconds are millis mod 86400000
\* and days * 86400000 + milliseconds = millis; in any zone the milliseconds
\* count from the first instant of millis's local date
SplitAsClaimed(dt) ==
  LET midnight == Sub(millis, dt.millisSinceMidnight)
  IN  /\ dt.daysSinceEpoch = FloorDivDay(millis)
      /\ ZeroOffset =>
           /\ dt.millisSinceMidnight = RemDay(millis)
           /\ Add(TimesDay(dt.daysSinceEpoch), dt.millisSinceMidnight) = millis
      /\ ~dt.millisSinceMidnight.nan
      /\ Geq(dt.millisSinceMidnight, Zero)
      /\ LocalDay(tz, midnight) = LocalDay(tz, millis)
      /\ LocalDay(tz, Sub(midnight, FromInt(1))) # LocalDay(tz, millis)

\* C24 as stated: for every timestamp >= 0 the pair of
\* millisecondsToDaysAndTime, called by compressSplitDaysTime, is as claimed.
C24_AsStated ==
  (fn = "compressSplitDaysTime" /\ ~millis.neg) =>
    SplitAsClaimed(millisecondsToDaysAndTime(tz, millis))

\* C24: for every timestamp from 0 up to the end of the range of a Date the
\* pair of millisecondsToDaysAndTime, called by compressSplitDaysTime, is as
\* claimed.
C24_UtcSplitWithinDateRange ==
  (fn = "compressSplitDaysTime" /\ ~millis.neg /\ ValidTime(millis)) =>
    SplitAsClaimed(millisecondsToDaysAndTime(tz, millis))

\* 1757546400000 has been split where the offset is zero
C24_Witness ==
  /\ fn = "compressSplitDaysTime"
  /\ ZeroOffset
  /\ millis = Example
  /\ out.value = <<"5", "i", "5", ":", "5", "G", "s", "e", "I">>

====
